---- MODULE Spec2Model ----
(***************************************************************************)
(* Model of the two WASM plugin templates of AnkhWaveStudio:               *)
(*   instrument_template.c  (16-voice polyphonic synthesizer)              *)
(*   effect_template.c      (lowpass / mix / gain effect)                  *)
(*                                                                         *)
(* Representation of the C float values (finite values only; NaN and the   *)
(* infinities are outside the modelled value domain):                      *)
(*   - parameters, velocity, master volume, mod wheel and pitch bend are   *)
(*     fixed-point numbers in thousandths (1.0 is MILLI = 1000);           *)
(*   - an envelope level is a fixed-point number with 1.0 = ONE = 10^9.    *)
(* The names of the effect's globals and functions carry the prefix fx_,   *)
(* because both translation units use the same names.                      *)
(*                                                                         *)
(* A voice is the record of the fields active, note, velocity, phase,      *)
(* phaseIncrement, envelope, envStage and filterState of the C struct      *)
(* Voice; envTarget and lfoPhase are never read by the code and are left   *)
(* out.  Signal values (phases, samples, filter states and coefficients)   *)
(* are fixed-point numbers in millionths (1.0 is MICRO).  The channel      *)
(* argument of the MIDI functions is ignored by the code and is kept as a  *)
(* parameter only.                                                         *)
(*                                                                         *)
(* The sample rates passed to init are positive whole numbers of hertz.    *)
(* updateEnvelope needs time * sampleRate >= 1/2 sample (thousandths times *)
(* sampleRate >= 500) to stay within 32 bits; every specification below    *)
(* keeps its sample rates and envelope times inside that.                  *)
(***************************************************************************)
EXTENDS Integers, Sequences, FiniteSets, TLC

\* ------------------------------------------------------------------------
\* Fixed-point scales
\* ------------------------------------------------------------------------

MILLI == 10 * 100
ONE == MILLI * MILLI * MILLI
\* one thousandth of the envelope scale: converts a parameter to a level
LEVEL == MILLI * MILLI

\* ------------------------------------------------------------------------
\* Configuration (instrument_template.c:26-28, effect_template.c:25-27)
\* ------------------------------------------------------------------------

MAX_VOICES == 16
NUM_PARAMETERS == 8
FX_NUM_PARAMETERS == 4

VoiceIds == 0 .. (MAX_VOICES - 1)
ParamIds == 0 .. (NUM_PARAMETERS - 1)
FxParamIds == 0 .. (FX_NUM_PARAMETERS - 1)

\* ------------------------------------------------------------------------
\* State
\* ------------------------------------------------------------------------

VARIABLES
    sampleRate,      \* instrument: static float sampleRate (samples per second)
    bufferSize,      \* instrument: static int bufferSize
    voices,          \* instrument: static Voice voices[MAX_VOICES]
    params,          \* instrument: static float params[NUM_PARAMETERS], thousandths
    masterVolume,    \* instrument: thousandths
    pitchBendValue,  \* instrument: thousandths
    modWheel,        \* instrument: thousandths
    noiseState,      \* instrument: static unsigned int noiseState, as 16-bit halves
    output,          \* instrument: what the last process call wrote to channel 0
                     \*   of its output buffer (channel 1 gets the same samples)
    fx_sampleRate,   \* effect: static float sampleRate
    fx_bufferSize,   \* effect: static int bufferSize
    fx_params,       \* effect: static float params[NUM_PARAMETERS], thousandths
    delayBuffer,     \* effect: static float* delayBuffer; 0 is NULL, else a heap block
    delayWritePos,   \* effect: static int delayWritePos
    delayLength,     \* effect: static int delayLength
    fx_filterState,  \* effect: static float filterState[2], <<channel 0, channel 1>>
    fx_output,       \* effect: the host's output buffer after the last process or
                     \*   processBlock call, one sequence of samples per channel
    heap,            \* effect: the blocks malloc has returned, each "live" or
                     \*   "freed", and whether a freed block was written or freed
    last,            \* the call made last: its name, arguments and result
    ncalls,          \* number of calls made so far
    noteOns,         \* noteOn calls with velocity > 0 since init
    clean,           \* no noteOff, noteOn without velocity > 0, reset or controlChange(123) since init
    relSamples,      \* the note of the last noteOff and the samples processed since
    ahead            \* what process would leave behind if the host called it now
                     \*   (kept by SpecFade only)

instrVars == <<sampleRate, bufferSize, voices, params, masterVolume,
               pitchBendValue, modWheel, noiseState, output>>

fxVars == <<fx_sampleRate, fx_bufferSize, fx_params, delayBuffer, delayWritePos,
            delayLength, fx_filterState, fx_output, heap>>

vars == <<instrVars, fxVars, last, ncalls>>

\* ------------------------------------------------------------------------
\* Declared parameter ranges and defaults, in thousandths
\* (instrument_template.c:78-87, effect_template.c:37-42)
\* ------------------------------------------------------------------------

ParamMin == <<0, 1, 1, 0, 1, 20 * MILLI, 0, -MILLI>>
ParamMax == <<4 * MILLI, 2 * MILLI, 2 * MILLI, MILLI, 5 * MILLI, 20000 * MILLI, MILLI, MILLI>>
ParamDefault == [i \in ParamIds |->
    <<0, 10, 100, 700, 300, 5000 * MILLI, 300, 0>>[i + 1]]

FxParamMin == <<0, 0, 20 * MILLI, 0>>
FxParamMax == <<2 * MILLI, MILLI, 20000 * MILLI, MILLI>>
FxParamDefault == [i \in FxParamIds |->
    <<MILLI, 500, 1000 * MILLI, 500>>[i + 1]]

\* ------------------------------------------------------------------------
\* Helper functions
\* ------------------------------------------------------------------------

clamp_above_only(value, min, max) ==
    IF value > max THEN max ELSE value

\* static inline float clamp(float value, float min, float max)
clamp(value, min, max) ==
    IF value < min THEN min
    ELSE IF value > max THEN max
    ELSE value

\* (float) value / 127.0f, in thousandths
normalizedValue(value) == (value * MILLI) \div 127

\* ------------------------------------------------------------------------
\* Parameter functions of the instrument
\* ------------------------------------------------------------------------

getParameterCount == NUM_PARAMETERS

\* float getParameter(int index), reading the parameter array p
getParameter(p, index) ==
    IF index >= 0 /\ index < NUM_PARAMETERS THEN p[index] ELSE 0

setParameter_wrapped_index(p, index, value) ==
    LET i == index % NUM_PARAMETERS
    IN  [p EXCEPT ![i] = clamp(value, ParamMin[i + 1], ParamMax[i + 1])]

\* void setParameter(int index, float value): the new parameter array
setParameterParams(p, index, value) ==
    IF index >= 0 /\ index < NUM_PARAMETERS
    THEN CASE index = 0 -> [p EXCEPT ![0] = clamp(value, 0, 4 * MILLI)]
           [] index = 1 -> [p EXCEPT ![1] = clamp(value, 1, 2 * MILLI)]
           [] index = 2 -> [p EXCEPT ![2] = clamp(value, 1, 2 * MILLI)]
           [] index = 3 -> [p EXCEPT ![3] = clamp(value, 0, MILLI)]
           [] index = 4 -> [p EXCEPT ![4] = clamp(value, 1, 5 * MILLI)]
           [] index = 5 -> [p EXCEPT ![5] = clamp(value, 20 * MILLI, 20000 * MILLI)]
           [] index = 6 -> [p EXCEPT ![6] = clamp(value, 0, MILLI)]
           [] index = 7 -> [p EXCEPT ![7] = clamp(value, -MILLI, MILLI)]
    ELSE p

\* ------------------------------------------------------------------------
\* Parameter functions of the effect
\* ------------------------------------------------------------------------

fx_getParameterCount == FX_NUM_PARAMETERS

\* float getParameter(int index) of the effect
fx_getParameter(p, index) ==
    IF index >= 0 /\ index < FX_NUM_PARAMETERS THEN p[index] ELSE 0

\* void setParameter(int index, float value) of the effect
fx_setParameterParams(p, index, value) ==
    IF index >= 0 /\ index < FX_NUM_PARAMETERS
    THEN CASE index = 0 -> [p EXCEPT ![0] = clamp(value, 0, 2 * MILLI)]
           [] index = 1 -> [p EXCEPT ![1] = clamp(value, 0, MILLI)]
           [] index = 2 -> [p EXCEPT ![2] = clamp(value, 20 * MILLI, 20000 * MILLI)]
           [] index = 3 -> [p EXCEPT ![3] = clamp(value, 0, MILLI)]
    ELSE p

\* ------------------------------------------------------------------------
\* Envelope (instrument_template.c:178-219)
\* ------------------------------------------------------------------------

\* floor(1000 * x / m) without leaving 32 bits: long division with the
\* digits of 1000 = 8 * 5 * 5 * 5.  It is x / (t * sampleRate) for a level x
\* and a time t whose value in thousandths times sampleRate is m.
perSample(x, m) ==
    LET q0 == x \div m
        r0 == x % m
        q1 == 8 * q0 + (8 * r0) \div m
        r1 == (8 * r0) % m
        q2 == 5 * q1 + (5 * r1) \div m
        r2 == (5 * r1) % m
        q3 == 5 * q2 + (5 * r2) \div m
        r3 == (5 * r2) % m
    IN  5 * q3 + (5 * r3) \div m

\* ------------------------------------------------------------------------
\* Arithmetic of the signal path.  Phases, phase increments, oscillator and
\* filter samples, filter coefficients and output samples are fixed-point
\* numbers in millionths (1.0 is MICRO); frequencies are in thousandths of
\* a hertz.  sinf, powf and tanhf are computed by the rational
\* approximations below, which are exact at the arguments 0, 1/2 and 1.
\* ------------------------------------------------------------------------

MICRO == MILLI * MILLI

\* floor(a * b / MICRO), by thousands so that no product leaves 32 bits
mulMicro(a, b) ==
    LET ah == a \div MILLI
        al == a % MILLI
        bh == b \div MILLI
        bl == b % MILLI
    IN  ah * bh + (ah * bl + al * bh + (al * bl) \div MILLI) \div MILLI

\* one digit of a long division: <<q, r>> stands for q + r / m
scaleStep(qr, k, m) == <<k * qr[1] + (k * qr[2]) \div m, (k * qr[2]) % m>>

\* floor(a * MICRO / d) for d > 0, by long division
divMicro(a, d) ==
    LET s0 == <<a \div d, a % d>>
        s1 == scaleStep(scaleStep(scaleStep(scaleStep(s0, 8, d), 5, d), 5, d), 5, d)
        s2 == scaleStep(scaleStep(scaleStep(scaleStep(s1, 8, d), 5, d), 5, d), 5, d)
    IN  s2[1]

\* 2^(k/12) for k = 0 .. 11, in millionths
SemitoneRatio ==
    <<1000000, 1059463, 1122462, 1189207, 1259921, 1334840,
      1414214, 1498307, 1587401, 1681793, 1781797, 1887749>>

\* powf(2.0f, k / 12.0f) for a whole number k of semitones, in millionths
semitones(k) ==
    LET octave == k \div 12
        r == SemitoneRatio[(k % 12) + 1]
    IN  IF octave >= 0 THEN r * 2 ^ octave ELSE r \div 2 ^ (-octave)

\* powf(2.0f, x / 12.0f) for x in thousandths of a semitone, in millionths:
\* exact at whole semitones, interpolated between them
powf2(x) ==
    LET k == x \div MILLI
        lo == semitones(k)
        hi == semitones(k + 1)
    IN  lo + ((hi - lo) * (x % MILLI)) \div MILLI

\* sinf(PI * u) for 0 <= u <= 1: 16 u (1 - u) / (5 - 4 u (1 - u))
sinHalfTurn(u) ==
    LET w == mulMicro(u, MICRO - u)
    IN  divMicro(16 * w, 5 * MICRO - 4 * w)

\* sinf(PI * u) for any u
sinPi(u) ==
    LET r == u % (2 * MICRO)
    IN  IF r <= MICRO THEN sinHalfTurn(r) ELSE -sinHalfTurn(r - MICRO)

\* tanhf(x): x (27 + x^2) / (27 + 9 x^2) up to |x| = 3, where it reaches 1
tanhf(x) ==
    IF x >= 3 * MICRO THEN MICRO
    ELSE IF x <= -3 * MICRO THEN -MICRO
    ELSE LET xx == mulMicro(x, x)
         IN  divMicro(mulMicro(x, 27 * MICRO + xx), 27 * MICRO + 9 * xx)

\* ------------------------------------------------------------------------
\* Helper functions of the instrument (instrument_template.c:104-129)
\* ------------------------------------------------------------------------

\* static inline float noteToFrequency(int note), in thousandths of a hertz
noteToFrequency(note) == mulMicro(440 * MILLI, semitones(note - 69))

\* static inline float frequencyToPhaseIncrement(float freq), with the
\* sample rate sr
frequencyToPhaseIncrement(freq, sr) == perSample(freq, sr)

\* static inline float polyblep(float t, float dt)
polyblep(t, dt) ==
    IF t < dt
    THEN LET x == divMicro(t, dt)
         IN  x + x - mulMicro(x, x) - MICRO
    ELSE IF t > MICRO - dt
    THEN LET x == divMicro(t - MICRO, dt)
         IN  mulMicro(x, x) + x + x + MICRO
    ELSE 0

\* the 32-bit noiseState is kept as its two 16-bit halves
NoiseSeed == [hi |-> 0, lo |-> 12345]

\* noiseState * 1103515245 + 12345 modulo 2^32
\* (1103515245 = 16838 * 65536 + 20077)
noiseStep(s) ==
    LET p == 20077 * s.lo + 12345
    IN  [lo |-> p % 65536,
         hi |-> ((p \div 65536) + ((16838 * s.lo) % 65536)
                   + ((20077 * s.hi) % 65536)) % 65536]

\* ((noiseState >> 16) & 0x7FFF) / 16383.5f - 1.0f
noiseValue(s) == divMicro(2 * (s.hi % 32768), 32767) - MICRO

\* ------------------------------------------------------------------------
\* Oscillator (instrument_template.c:135-172)
\* ------------------------------------------------------------------------

\* static float generateOscillator(Voice* v, WaveformType waveform): the
\* sample returned, the phase left in the voice and the noise state left
generateOscillator(v, waveform, ns) ==
    LET t == v.phase
        dt == v.phaseIncrement
        advanced == t + dt
        phase == IF advanced >= MICRO THEN advanced - MICRO ELSE advanced
        sample ==
            CASE waveform = 0 -> sinPi(2 * t)
              [] waveform = 1 ->
                    (IF t < MICRO \div 2 THEN MICRO ELSE -MICRO)
                      - polyblep(t, dt)
                      + polyblep((t + MICRO \div 2) % MICRO, dt)
              [] waveform = 2 -> 2 * t - MICRO - polyblep(t, dt)
              [] waveform = 3 ->
                    LET d == t - MICRO \div 2
                    IN  4 * (IF d < 0 THEN -d ELSE d) - MICRO
              [] waveform = 4 -> noiseValue(noiseStep(ns))
              [] OTHER -> 0
    IN  [sample |-> sample,
         phase |-> phase,
         noise |-> IF waveform = 4 THEN noiseStep(ns) ELSE ns]

\* ------------------------------------------------------------------------
\* Envelope (instrument_template.c:178-219), continued
\* ------------------------------------------------------------------------

updateEnvelope_release_down_to_zero(v, p, sr) ==
    LET attack == p[1]
        decay == p[2]
        sustain == p[3] * LEVEL
        release == p[4]
    IN  CASE v.envStage = 1 ->
               LET e == v.envelope + perSample(ONE, attack * sr)
               IN  IF e >= ONE
                   THEN [v EXCEPT !.envelope = ONE, !.envStage = 2]
                   ELSE [v EXCEPT !.envelope = e]
          [] v.envStage = 2 ->
               LET e == v.envelope - perSample(ONE - sustain, decay * sr)
               IN  IF e <= sustain
                   THEN [v EXCEPT !.envelope = sustain, !.envStage = 3]
                   ELSE [v EXCEPT !.envelope = e]
          [] v.envStage = 3 -> v
          [] v.envStage = 4 ->
               LET e == v.envelope - perSample(v.envelope, release * sr)
               IN  IF e <= 0
                   THEN [v EXCEPT !.envelope = 0, !.envStage = 0, !.active = FALSE]
                   ELSE [v EXCEPT !.envelope = e]
          [] OTHER -> v

updateEnvelope_release_stuck_at_zero(v, p, sr) ==
    LET attack == p[1]
        decay == p[2]
        sustain == p[3] * LEVEL
        release == p[4]
    IN  CASE v.envStage = 1 ->
               LET e == v.envelope + perSample(ONE, attack * sr)
               IN  IF e >= ONE
                   THEN [v EXCEPT !.envelope = ONE, !.envStage = 2]
                   ELSE [v EXCEPT !.envelope = e]
          [] v.envStage = 2 ->
               LET e == v.envelope - perSample(ONE - sustain, decay * sr)
               IN  IF e <= sustain
                   THEN [v EXCEPT !.envelope = sustain, !.envStage = 3]
                   ELSE [v EXCEPT !.envelope = e]
          [] v.envStage = 3 -> v
          [] v.envStage = 4 ->
               LET e == v.envelope - perSample(v.envelope, release * sr)
               IN  IF e <= LEVEL /\ v.envelope > 0
                   THEN [v EXCEPT !.envelope = 0, !.envStage = 0, !.active = FALSE]
                   ELSE [v EXCEPT !.envelope = e]
          [] OTHER -> v

updateEnvelope_attack_overshoots(v, p, sr) ==
    LET attack == p[1]
        decay == p[2]
        sustain == p[3] * LEVEL
        release == p[4]
    IN  CASE v.envStage = 1 ->
               LET e == v.envelope + perSample(ONE, attack * sr)
               IN  IF e >= ONE
                   THEN [v EXCEPT !.envelope = e, !.envStage = 2]
                   ELSE [v EXCEPT !.envelope = e]
          [] v.envStage = 2 ->
               LET e == v.envelope - perSample(ONE - sustain, decay * sr)
               IN  IF e <= sustain
                   THEN [v EXCEPT !.envelope = sustain, !.envStage = 3]
                   ELSE [v EXCEPT !.envelope = e]
          [] v.envStage = 3 -> v
          [] v.envStage = 4 ->
               LET e == v.envelope - perSample(v.envelope, release * sr)
               IN  IF e <= LEVEL
                   THEN [v EXCEPT !.envelope = 0, !.envStage = 0, !.active = FALSE]
                   ELSE [v EXCEPT !.envelope = e]
          [] OTHER -> v

updateEnvelope_attack_to_sustain(v, p, sr) ==
    LET attack == p[1]
        decay == p[2]
        sustain == p[3] * LEVEL
        release == p[4]
    IN  CASE v.envStage = 1 ->
               LET e == v.envelope + perSample(ONE, attack * sr)
               IN  IF e >= ONE
                   THEN [v EXCEPT !.envelope = sustain, !.envStage = 3]
                   ELSE [v EXCEPT !.envelope = e]
          [] v.envStage = 2 ->
               LET e == v.envelope - perSample(ONE - sustain, decay * sr)
               IN  IF e <= sustain
                   THEN [v EXCEPT !.envelope = sustain, !.envStage = 3]
                   ELSE [v EXCEPT !.envelope = e]
          [] v.envStage = 3 -> v
          [] v.envStage = 4 ->
               LET e == v.envelope - perSample(v.envelope, release * sr)
               IN  IF e <= LEVEL
                   THEN [v EXCEPT !.envelope = 0, !.envStage = 0, !.active = FALSE]
                   ELSE [v EXCEPT !.envelope = e]
          [] OTHER -> v

\* static void updateEnvelope(Voice* v): the voice after one envelope step,
\* with the parameter array p and the sample rate sr
updateEnvelope(v, p, sr) ==
    LET attack == p[1]
        decay == p[2]
        sustain == p[3] * LEVEL
        release == p[4]
    IN  CASE v.envStage = 1 ->
               LET e == v.envelope + perSample(ONE, attack * sr)
               IN  IF e >= ONE
                   THEN [v EXCEPT !.envelope = ONE, !.envStage = 2]
                   ELSE [v EXCEPT !.envelope = e]
          [] v.envStage = 2 ->
               LET e == v.envelope - perSample(ONE - sustain, decay * sr)
               IN  IF e <= sustain
                   THEN [v EXCEPT !.envelope = sustain, !.envStage = 3]
                   ELSE [v EXCEPT !.envelope = e]
          [] v.envStage = 3 -> v
          [] v.envStage = 4 ->
               LET e == v.envelope - perSample(v.envelope, release * sr)
               IN  IF e <= LEVEL
                   THEN [v EXCEPT !.envelope = 0, !.envStage = 0, !.active = FALSE]
                   ELSE [v EXCEPT !.envelope = e]
          [] OTHER -> v

\* ------------------------------------------------------------------------
\* Filter (instrument_template.c:225-247)
\* ------------------------------------------------------------------------

\* the state variable filter (lines 238-246) with the coefficients f and q:
\* the sample returned and the filterState left in the voice
\* (<<filterState[0], filterState[1]>>)
stateVariableFilter(filterState, input, f, q) ==
    LET low == filterState[2] + mulMicro(f, filterState[1])
        high == input - low - mulMicro(q, filterState[1])
        band == mulMicro(f, high) + filterState[1]
    IN  [out |-> low, filterState |-> <<band, low>>]

\* the cutoff modulated by the envelope (lines 226-232), in thousandths of
\* a hertz
modulatedCutoff(v, p) ==
    clamp(mulMicro(p[5], MICRO + (v.envelope \div MILLI) \div 2),
          20 * MILLI, 20000 * MILLI)

\* static float processFilter(Voice* v, float input), with the parameter
\* array p and the sample rate sr
processFilter(v, input, p, sr) ==
    stateVariableFilter(v.filterState, input,
                        2 * sinPi(perSample(modulatedCutoff(v, p), sr)),
                        MICRO - p[6] * 900)

\* ------------------------------------------------------------------------
\* Core functions of the instrument (instrument_template.c:253-333)
\* ------------------------------------------------------------------------

\* a voice as init leaves it (lines 259-268); the static array starts zeroed
InitVoice ==
    [active |-> FALSE, note |-> 0, velocity |-> 0, phase |-> 0,
     phaseIncrement |-> 0, envelope |-> 0, envStage |-> 0,
     filterState |-> <<0, 0>>]

\* the voice with its pitch updated for pitch bend and detune (lines
\* 286-290); pb is the pitch-bend offset
pitchVoice(v, p, sr, pb) ==
    [v EXCEPT !.phaseIncrement =
        frequencyToPhaseIncrement(
            mulMicro(noteToFrequency(v.note), powf2(pb * 2 + p[7])), sr)]

mixVoice_envelope_first(v, p, sr, osc, filtered) ==
    [voice |-> [updateEnvelope(v, p, sr) EXCEPT
                   !.phase = osc.phase,
                   !.filterState = filtered.filterState],
     noise |-> osc.noise,
     voiced |-> mulMicro(mulMicro(filtered.out,
                                  updateEnvelope(v, p, sr).envelope \div MILLI),
                         v.velocity * MILLI)]

\* lines 298-304, with what generateOscillator and processFilter returned
\* and left: voiced is taken with the envelope the voice has before
\* updateEnvelope runs
mixVoice(v, p, sr, osc, filtered) ==
    [voice |-> [updateEnvelope(v, p, sr) EXCEPT
                   !.phase = osc.phase,
                   !.filterState = filtered.filterState],
     noise |-> osc.noise,
     voiced |-> mulMicro(mulMicro(filtered.out, v.envelope \div MILLI),
                         v.velocity * MILLI)]

\* lines 296-304, with what generateOscillator returned and left
filterVoice(v, p, sr, osc) ==
    mixVoice(v, p, sr, osc, processFilter(v, osc.sample, p, sr))

\* lines 293-304, for the voice with its pitch updated
soundVoice(v, p, sr, ns) ==
    filterVoice(v, p, sr, generateOscillator(v, p[0] \div MILLI, ns))

\* the body of the voice loop of process for an active voice (lines
\* 285-304), with the parameter array p, the sample rate sr, the pitch-bend
\* offset pb and the noise state ns: the voice and the noise state
\* afterwards, and what the voice adds to the sample
processVoice(v, p, sr, pb, ns) == soundVoice(pitchVoice(v, p, sr, pb), p, sr, ns)

\* the state of the voice loop after voice i, which left r
voiceDone(st, i, r) ==
    [voices |-> [st.voices EXCEPT ![i] = r.voice],
     noise |-> r.noise,
     sample |-> st.sample + r.voiced,
     output |-> st.output]

\* the voice loop of process (lines 282-305) from voice i on; st holds the
\* voices, the noise state and the sample summed so far
RECURSIVE processVoicesFrom(_, _, _, _, _)
processVoicesFrom(st, i, p, sr, pb) ==
    IF i >= MAX_VOICES THEN st
    ELSE IF ~st.voices[i].active THEN processVoicesFrom(st, i + 1, p, sr, pb)
    ELSE processVoicesFrom(
             voiceDone(st, i, processVoice(st.voices[i], p, sr, pb, st.noise)),
             i + 1, p, sr, pb)

\* lines 307-315: the master volume mv, the soft clip, and the sample
\* written to both channels
writeSample(st, mv) ==
    [st EXCEPT !.output = Append(@, tanhf(mulMicro(st.sample, mv * MILLI)))]

\* one turn of the sample loop of process (lines 279-316): the voices, the
\* master volume mv, the soft clip, and the sample written to both channels
processSample(st, p, sr, pb, mv) ==
    writeSample(processVoicesFrom([st EXCEPT !.sample = 0], 0, p, sr, pb), mv)

\* numSamples turns of the sample loop (split in halves to keep the
\* recursion shallow; reading st.output first has the first half computed
\* before the second half starts)
RECURSIVE processSamples(_, _, _, _, _, _)
processSamples(st, p, sr, pb, mv, numSamples) ==
    IF numSamples <= 0 \/ Len(st.output) < 0 THEN st
    ELSE IF numSamples = 1 THEN processSample(st, p, sr, pb, mv)
    ELSE LET half == numSamples \div 2
             mid == processSamples(st, p, sr, pb, mv, half)
         IN  processSamples(mid, p, sr, pb, mv, numSamples - half)

resetVoices_keeps_stage(vs) ==
    [i \in VoiceIds |->
        [vs[i] EXCEPT !.active = FALSE, !.envelope = 0, !.filterState = <<0, 0>>]]

resetVoices_keeps_filter(vs) ==
    [i \in VoiceIds |->
        [vs[i] EXCEPT !.active = FALSE, !.envelope = 0, !.envStage = 0]]

\* the voice loop of reset (lines 320-326)
resetVoices(vs) ==
    [i \in VoiceIds |->
        [vs[i] EXCEPT !.active = FALSE, !.envelope = 0, !.envStage = 0,
                      !.filterState = <<0, 0>>]]

\* ------------------------------------------------------------------------
\* MIDI functions of the instrument (instrument_template.c:339-413)
\* ------------------------------------------------------------------------

noteOffVoices_first_only(vs, note) ==
    LET hit == {i \in VoiceIds :
                  vs[i].active /\ vs[i].note = note /\ vs[i].envStage # 4}
    IN  [i \in VoiceIds |->
            IF i \in hit /\ \A j \in hit : i <= j
            THEN [vs[i] EXCEPT !.envStage = 4] ELSE vs[i]]

\* void noteOff(int note, int channel): the voices afterwards
noteOffVoices(vs, note) ==
    [i \in VoiceIds |->
        IF vs[i].active /\ vs[i].note = note /\ vs[i].envStage # 4
        THEN [vs[i] EXCEPT !.envStage = 4]
        ELSE vs[i]]

\* the scan of noteOn (lines 346-365) from voice i on: the free voice it
\* stops at, or the tracked oldestIndex when it runs to the end
RECURSIVE scanVoices(_, _, _, _)
scanVoices(vs, i, oldestTime, oldestIndex) ==
    IF i >= MAX_VOICES THEN oldestIndex
    ELSE IF ~vs[i].active THEN i
    ELSE IF vs[i].envelope < oldestTime \/ i = 0
         THEN scanVoices(vs, i + 1, vs[i].envelope, i)
         ELSE scanVoices(vs, i + 1, oldestTime, oldestIndex)

voiceIndex_never_scans(vs) == 0

voiceIndex_steals_voice_zero(vs) ==
    IF \E i \in VoiceIds : ~vs[i].active
    THEN scanVoices(vs, 0, 0, 0)
    ELSE 0

voiceIndex_last_free(vs) ==
    IF \E i \in VoiceIds : ~vs[i].active
    THEN CHOOSE i \in VoiceIds :
            ~vs[i].active /\ \A j \in VoiceIds : ~vs[j].active => j <= i
    ELSE scanVoices(vs, 0, 0, 0)

\* the voice noteOn picks (lines 346-365)
voiceIndex(vs) == scanVoices(vs, 0, 0, 0)

noteOnVoices_no_velocity_check(vs, note, velocity, sr) ==
    [vs EXCEPT ![voiceIndex(vs)] =
        [active |-> TRUE, note |-> note, velocity |-> normalizedValue(velocity),
         phase |-> 0,
         phaseIncrement |-> frequencyToPhaseIncrement(noteToFrequency(note), sr),
         envelope |-> 0, envStage |-> 1, filterState |-> <<0, 0>>]]

\* void noteOn(int note, int velocity, int channel): the voices afterwards,
\* with the sample rate sr
noteOnVoices(vs, note, velocity, sr) ==
    IF velocity = 0 THEN noteOffVoices(vs, note)
    ELSE [vs EXCEPT ![voiceIndex(vs)] =
            [active |-> TRUE, note |-> note, velocity |-> normalizedValue(velocity),
             phase |-> 0,
             phaseIncrement |-> frequencyToPhaseIncrement(noteToFrequency(note), sr),
             envelope |-> 0, envStage |-> 1, filterState |-> <<0, 0>>]]

\* pitchBendValue = (value - 8192) / 8192.0f, in thousandths
pitchBendOf(value) == ((value - 8192) * MILLI) \div 8192

\* ------------------------------------------------------------------------
\* Signal path of the effect (effect_template.c:62-73, 102-145)
\* ------------------------------------------------------------------------

FX_NUM_CHANNELS == 2

\* static inline float lerp(float a, float b, float t)
lerp(a, b, t) == a + mulMicro(b - a, t)

\* static inline float lowpass(float input, float* state, float cutoff):
\* the new *state, which is also the value returned.  rc = 1 / (2 pi cutoff)
\* and dt = 1 / sr give alpha = 2 pi cutoff / (sr + 2 pi cutoff).
lowpass(input, state, cutoff, sr) ==
    LET w == mulMicro(cutoff, 2 * 3141593)
        alpha == divMicro(w, sr * MILLI + w)
    IN  lerp(state, input, alpha)

\* a sample the host's output buffer holds before a call and the call may
\* leave there: no computed sample has this value
Stale == -(MILLI * MICRO)

\* one turn of a sample loop (lines 111-120, 139-142) for the input sample
\* x, with what lowpass returned and left in the channel's filter state
fx_sampleDone(st, x, filtered, p) ==
    [state |-> filtered,
     out |-> Append(st.out,
                    mulMicro(lerp(x, filtered, p[1] * MILLI), p[0] * MILLI))]

\* the samples one channel gets, from sample i on: in is the channel's
\* input, st the channel's filter state and the output written so far
RECURSIVE fx_channelFrom(_, _, _, _, _)
fx_channelFrom(st, in, i, p, sr) ==
    IF i > Len(in) THEN st
    ELSE fx_channelFrom(
             fx_sampleDone(st, in[i], lowpass(in[i], st.state, p[2], sr), p),
             in, i + 1, p, sr)

fx_channel(state, in, p, sr) ==
    fx_channelFrom([state |-> state, out |-> <<>>], in, 1, p, sr)

\* void process(float* input, float* output, int numSamples) of the effect:
\* input[ch] holds the numSamples samples of channel ch, taken out of the
\* interleaved buffer; the filter states and the output buffer afterwards.
\* No channel reads the other one's state, so the channels are filtered one
\* after the other.
fx_processState(fs, input, p, sr) ==
    LET c0 == fx_channel(fs[1], input[1], p, sr)
        c1 == fx_channel(fs[2], input[2], p, sr)
    IN  [filterState |-> <<c0.state, c1.state>>, output |-> <<c0.out, c1.out>>]

\* void processBlock(float* input, float* output, int numSamples,
\* int numChannels): input[ch] is the part of the planar buffer that holds
\* channel ch - 1; a channel the loop does not reach keeps its filter state
\* and what the output buffer held
fx_processBlockState(fs, input, numChannels, p, sr) ==
    LET done(ch) == ch < numChannels /\ ch < FX_NUM_CHANNELS
        c0 == fx_channel(fs[1], input[1], p, sr)
        c1 == fx_channel(fs[2], input[2], p, sr)
    IN  [filterState |-> <<IF done(0) THEN c0.state ELSE fs[1],
                           IF done(1) THEN c1.state ELSE fs[2]>>,
         output |-> [ch \in 1 .. numChannels |->
                        IF ch = 1 /\ done(0) THEN c0.out
                        ELSE IF ch = 2 /\ done(1) THEN c1.out
                        ELSE [i \in 1 .. Len(input[ch]) |-> Stale]]]

\* ------------------------------------------------------------------------
\* The heap of the effect: malloc, memset and free on the delay buffer
\* ------------------------------------------------------------------------

NoHeap == [blocks |-> <<>>, fault |-> FALSE]

\* malloc that succeeds: a new live block, whose number is the pointer
heapAlloc(h) == [h EXCEPT !.blocks = Append(@, "live")]

\* memset on block b: undefined once the block has been freed
heapWrite(h, b) ==
    IF h.blocks[b] = "live" THEN h ELSE [h EXCEPT !.fault = TRUE]

\* free(b): undefined once the block has been freed
heapFree(h, b) ==
    IF h.blocks[b] = "live" THEN [h EXCEPT !.blocks[b] = "freed"]
    ELSE [h EXCEPT !.fault = TRUE]

fx_disposeState_keeps_pointer(buf, h) ==
    IF buf # 0 THEN [delayBuffer |-> buf, heap |-> heapFree(h, buf)]
    ELSE [delayBuffer |-> buf, heap |-> h]

\* void dispose() of the effect: the pointer and the heap afterwards
fx_disposeState(buf, h) ==
    IF buf # 0 THEN [delayBuffer |-> 0, heap |-> heapFree(h, buf)]
    ELSE [delayBuffer |-> buf, heap |-> h]

\* ------------------------------------------------------------------------
\* Initial state: the static initialisers of both translation units
\* ------------------------------------------------------------------------

NoCall == [op |-> "none", a |-> 0, b |-> 0, ret |-> 0, stole |-> FALSE]

Call(op, a, b, ret, stole) ==
    [op |-> op, a |-> a, b |-> b, ret |-> ret, stole |-> stole]

NoRelease == [note |-> -1, samples |-> 0]

NoAhead ==
    [voices |-> [i \in VoiceIds |-> InitVoice], noise |-> NoiseSeed,
     sample |-> 0, output |-> <<>>]

Init ==
    /\ sampleRate = 44100
    /\ bufferSize = 128
    /\ voices = [i \in VoiceIds |-> InitVoice]
    /\ params = ParamDefault
    /\ masterVolume = 800
    /\ pitchBendValue = 0
    /\ modWheel = 0
    /\ noiseState = NoiseSeed
    /\ output = <<>>
    /\ fx_sampleRate = 44100
    /\ fx_bufferSize = 128
    /\ fx_params = FxParamDefault
    /\ delayBuffer = 0
    /\ delayWritePos = 0
    /\ delayLength = 0
    /\ fx_filterState = <<0, 0>>
    /\ fx_output = <<>>
    /\ heap = NoHeap
    /\ last = NoCall
    /\ ncalls = 0
    /\ noteOns = 0
    /\ clean = FALSE
    /\ relSamples = NoRelease
    /\ ahead = NoAhead

\* ------------------------------------------------------------------------
\* Actions: one per exported function
\* ------------------------------------------------------------------------

\* void init(float sr, int bs)
init(sr, bs) ==
    /\ sampleRate' = sr
    /\ bufferSize' = bs
    /\ voices' = [i \in VoiceIds |-> InitVoice]
    /\ last' = Call("init", sr, bs, 0, FALSE)
    /\ UNCHANGED <<params, masterVolume, pitchBendValue, modWheel, noiseState,
                   output, fxVars>>

\* void process(float* input, float* output, int numSamples); r is the
\* state the sample loop ends in
process(numSamples) ==
    \E r \in {processSamples(
                 [voices |-> voices, noise |-> noiseState, sample |-> 0,
                  output |-> <<>>],
                 params, sampleRate, pitchBendValue, masterVolume, numSamples)} :
        /\ voices' = r.voices
        /\ noiseState' = r.noise
        /\ output' = r.output
        /\ last' = Call("process", numSamples, 0, 0, FALSE)
        /\ UNCHANGED <<sampleRate, bufferSize, params, masterVolume,
                       pitchBendValue, modWheel, fxVars>>

\* void reset()
reset ==
    /\ voices' = resetVoices(voices)
    /\ pitchBendValue' = 0
    /\ modWheel' = 0
    /\ last' = Call("reset", 0, 0, 0, FALSE)
    /\ UNCHANGED <<sampleRate, bufferSize, params, masterVolume, noiseState,
                   output, fxVars>>

\* void noteOn(int note, int velocity, int channel)
noteOn(note, velocity, channel) ==
    /\ voices' = noteOnVoices(voices, note, velocity, sampleRate)
    /\ last' = IF velocity = 0
               THEN Call("noteOn", note, velocity, -1, FALSE)
               ELSE Call("noteOn", note, velocity, voiceIndex(voices),
                         \A i \in VoiceIds : voices[i].active)
    /\ UNCHANGED <<sampleRate, bufferSize, params, masterVolume, pitchBendValue,
                   modWheel, noiseState, output, fxVars>>

\* void noteOff(int note, int channel)
noteOff(note, channel) ==
    /\ voices' = noteOffVoices(voices, note)
    /\ last' = Call("noteOff", note, 0, 0, FALSE)
    /\ UNCHANGED <<sampleRate, bufferSize, params, masterVolume, pitchBendValue,
                   modWheel, noiseState, output, fxVars>>

\* void controlChange(int cc, int value, int channel)
controlChange(cc, value, channel) ==
    /\ modWheel' = CASE cc = 1 -> normalizedValue(value)
                     [] cc = 123 -> 0
                     [] OTHER -> modWheel
    /\ masterVolume' = IF cc = 7 THEN normalizedValue(value) ELSE masterVolume
    /\ params' = CASE cc = 74 ->
                        [params EXCEPT ![5] = 20 * MILLI + normalizedValue(value) * 19980]
                   [] cc = 71 -> [params EXCEPT ![6] = normalizedValue(value)]
                   [] OTHER -> params
    /\ voices' = IF cc = 123 THEN resetVoices(voices) ELSE voices
    /\ pitchBendValue' = IF cc = 123 THEN 0 ELSE pitchBendValue
    /\ last' = Call("controlChange", cc, value, 0, FALSE)
    /\ UNCHANGED <<sampleRate, bufferSize, noiseState, output, fxVars>>

\* void pitchBend(int value, int channel)
pitchBend(value, channel) ==
    /\ pitchBendValue' = pitchBendOf(value)
    /\ last' = Call("pitchBend", value, 0, 0, FALSE)
    /\ UNCHANGED <<sampleRate, bufferSize, voices, params, masterVolume, modWheel,
                   noiseState, output, fxVars>>

\* void setParameter(int index, float value)
setParameter(index, value) ==
    /\ params' = setParameterParams(params, index, value)
    /\ last' = Call("setParameter", index, value, 0, FALSE)
    /\ UNCHANGED <<sampleRate, bufferSize, voices, masterVolume, pitchBendValue,
                   modWheel, noiseState, output, fxVars>>

\* float getParameter(int index): the call, with its result recorded
getParameterCall(index) ==
    /\ last' = Call("getParameter", index, 0, getParameter(params, index), FALSE)
    /\ UNCHANGED <<instrVars, fxVars>>

\* the effect's variables other than its parameters
fxState == <<fx_sampleRate, fx_bufferSize, delayBuffer, delayWritePos,
             delayLength, fx_filterState, fx_output, heap>>

\* void setParameter(int index, float value) of the effect
fx_setParameter(index, value) ==
    /\ fx_params' = fx_setParameterParams(fx_params, index, value)
    /\ last' = Call("fx_setParameter", index, value, 0, FALSE)
    /\ UNCHANGED <<instrVars, fxState>>

\* float getParameter(int index) of the effect: the call, with its result
fx_getParameterCall(index) ==
    /\ last' = Call("fx_getParameter", index, 0, fx_getParameter(fx_params, index), FALSE)
    /\ UNCHANGED <<instrVars, fxVars>>

\* void init(float sr, int bs) of the effect; malloc returns a new block
\* (allocated) or NULL.  The call is recorded with what malloc returned.
fx_init(sr, bs, allocated) ==
    /\ fx_sampleRate' = sr
    /\ fx_bufferSize' = bs
    /\ delayLength' = sr
    /\ heap' = IF allocated THEN heapAlloc(heap) ELSE heap
    /\ delayBuffer' = IF allocated THEN Len(heap.blocks) + 1 ELSE 0
    /\ delayWritePos' = 0
    /\ fx_filterState' = <<0, 0>>
    /\ last' = Call("fx_init", sr, bs, delayBuffer', FALSE)
    /\ UNCHANGED <<instrVars, fx_params, fx_output>>

\* void process(float* input, float* output, int numSamples) of the effect;
\* input is <<channel 0, channel 1>>, each numSamples samples long
fx_process(input, numSamples) ==
    \E r \in {fx_processState(fx_filterState, input, fx_params, fx_sampleRate)} :
        /\ fx_filterState' = r.filterState
        /\ fx_output' = r.output
        /\ last' = Call("fx_process", input, numSamples, 0, FALSE)
        /\ UNCHANGED <<instrVars, fx_sampleRate, fx_bufferSize, fx_params,
                       delayBuffer, delayWritePos, delayLength, heap>>

\* void processBlock(float* input, float* output, int numSamples,
\* int numChannels); input is one sequence of numSamples samples per channel
fx_processBlock(input, numSamples, numChannels) ==
    \E r \in {fx_processBlockState(fx_filterState, input, numChannels,
                                   fx_params, fx_sampleRate)} :
        /\ fx_filterState' = r.filterState
        /\ fx_output' = r.output
        /\ last' = Call("fx_processBlock", input, numSamples, numChannels, FALSE)
        /\ UNCHANGED <<instrVars, fx_sampleRate, fx_bufferSize, fx_params,
                       delayBuffer, delayWritePos, delayLength, heap>>

\* void reset() of the effect.  The call is recorded with the number of
\* floats memset wrote.
fx_reset ==
    /\ heap' = IF delayBuffer # 0 THEN heapWrite(heap, delayBuffer) ELSE heap
    /\ delayWritePos' = 0
    /\ fx_filterState' = <<0, 0>>
    /\ last' = Call("fx_reset", 0, 0,
                    IF delayBuffer # 0 THEN delayLength * FX_NUM_CHANNELS ELSE 0,
                    FALSE)
    /\ UNCHANGED <<instrVars, fx_sampleRate, fx_bufferSize, fx_params, delayBuffer,
                   delayLength, fx_output>>

\* void dispose() of the effect.  The call is recorded with the pointer
\* it passed to free (0 when it freed nothing).
fx_dispose ==
    \E r \in {fx_disposeState(delayBuffer, heap)} :
        /\ delayBuffer' = r.delayBuffer
        /\ heap' = r.heap
        /\ last' = Call("fx_dispose", 0, 0, delayBuffer, FALSE)
        /\ UNCHANGED <<instrVars, fx_sampleRate, fx_bufferSize, fx_params,
                       delayWritePos, delayLength, fx_filterState, fx_output>>

\* ------------------------------------------------------------------------
\* Bookkeeping of the calls made (not program state)
\* ------------------------------------------------------------------------

\* the counters after the call recorded in last'
Counted ==
    /\ ncalls' = ncalls + 1
    /\ noteOns' = CASE last'.op = "init" -> 0
                    [] last'.op = "noteOn" /\ last'.b > 0 -> noteOns + 1
                    [] OTHER -> noteOns
    /\ clean' = CASE last'.op = "init" -> TRUE
                  [] last'.op \in {"noteOff", "reset"} -> FALSE
                  [] last'.op = "noteOn" -> (clean /\ last'.b > 0)
                  [] last'.op = "controlChange" -> (clean /\ last'.a # 123)
                  [] OTHER -> clean
    /\ relSamples' =
          CASE last'.op = "noteOff" -> [note |-> last'.a, samples |-> 0]
            [] last'.op = "noteOn" /\ last'.b = 0 -> [note |-> last'.a, samples |-> 0]
            [] last'.op \in {"noteOn", "init", "reset"} -> NoRelease
            [] last'.op = "controlChange" /\ last'.a = 123 -> NoRelease
            [] last'.op = "process" /\ relSamples.note >= 0 ->
                  [relSamples EXCEPT !.samples = @ + last'.a]
            [] OTHER -> relSamples
    /\ ahead' = ahead

\* the counters left alone
Uncounted == UNCHANGED <<ncalls, noteOns, clean, relSamples, ahead>>

\* only the samples since the last noteOff are counted
Timed ==
    /\ relSamples' =
          CASE last'.op = "noteOff" -> [note |-> last'.a, samples |-> 0]
            [] last'.op = "process" /\ relSamples.note >= 0 ->
                  [relSamples EXCEPT !.samples = @ + last'.a]
            [] OTHER -> relSamples
    /\ UNCHANGED <<ncalls, noteOns, clean, ahead>>

\* ------------------------------------------------------------------------
\* Inputs
\* ------------------------------------------------------------------------

\* parameter indices the host may pass: the valid ones and one on each side
IndexInputs == -1 .. NUM_PARAMETERS
FxIndexInputs == -1 .. FX_NUM_PARAMETERS

\* values around a range: below it, its ends, inside it, above it
Around(min, max) == {min - MILLI, min, (min + max) \div 2, max, max + MILLI}

ValueInputs(index) ==
    IF index \in ParamIds THEN Around(ParamMin[index + 1], ParamMax[index + 1])
    ELSE Around(0, MILLI)

FxValueInputs(index) ==
    IF index \in FxParamIds THEN Around(FxParamMin[index + 1], FxParamMax[index + 1])
    ELSE Around(0, MILLI)

\* ------------------------------------------------------------------------
\* SpecParams: the parameter stores of both plugins
\* ------------------------------------------------------------------------

MaxParamCalls == 3

NextParams ==
    /\ ncalls < MaxParamCalls
    /\ \/ \E i \in IndexInputs : \E x \in ValueInputs(i) : setParameter(i, x)
       \/ \E i \in IndexInputs : getParameterCall(i)
       \/ \E i \in FxIndexInputs : \E x \in FxValueInputs(i) : fx_setParameter(i, x)
       \/ \E i \in FxIndexInputs : fx_getParameterCall(i)
       \/ init(44100, 128)
       \/ \E allocated \in BOOLEAN : fx_init(44100, 128, allocated)
    /\ Counted

SpecParams == Init /\ [][NextParams]_vars

\* what the claim calls "x clamped into the declared range [min, max]"
Clamped(x, got, min, max) ==
    /\ min <= got /\ got <= max
    /\ (min <= x /\ x <= max) => got = x
    /\ x < min => got = min
    /\ x > max => got = max

\* C1: in both plugins, for a valid index i, getParameter(i) right after
\* setParameter(i, x) returns x clamped into parameter i's declared range
\* (x itself in range, the minimum below it, the maximum above it), and
\* setting the returned value again changes nothing.
C1_SetThenGetClamps ==
    /\ (last.op = "setParameter" /\ last.a \in ParamIds) =>
          LET got == getParameter(params, last.a)
          IN  /\ Clamped(last.b, got, ParamMin[last.a + 1], ParamMax[last.a + 1])
              /\ setParameterParams(params, last.a, got) = params
    /\ (last.op = "fx_setParameter" /\ last.a \in FxParamIds) =>
          LET got == fx_getParameter(fx_params, last.a)
          IN  /\ Clamped(last.b, got, FxParamMin[last.a + 1], FxParamMax[last.a + 1])
              /\ fx_setParameterParams(fx_params, last.a, got) = fx_params

\* a value below the cutoff range was set, and the minimum is what is read
C1_Witness ==
    /\ last.op = "setParameter" /\ last.a = 5
    /\ last.b < ParamMin[6]
    /\ getParameter(params, 5) = 20 * MILLI

\* C2: for an index below 0 or at or above getParameterCount(), getParameter
\* returns 0, and setParameter leaves what getParameter returns for every
\* valid index as it was before the call.
C2_BadIndexIgnored ==
    /\ [](/\ (last.op = "getParameter" /\ (last.a < 0 \/ last.a >= getParameterCount))
                => last.ret = 0
          /\ (last.op = "fx_getParameter" /\ (last.a < 0 \/ last.a >= fx_getParameterCount))
                => last.ret = 0)
    /\ [][/\ (last'.op = "setParameter" /\ (last'.a < 0 \/ last'.a >= getParameterCount))
                => \A j \in ParamIds : getParameter(params', j) = getParameter(params, j)
          /\ (last'.op = "fx_setParameter"
                /\ (last'.a < 0 \/ last'.a >= fx_getParameterCount))
                => \A j \in FxParamIds :
                      fx_getParameter(fx_params', j) = fx_getParameter(fx_params, j)]_vars

\* setParameter was called with index 8 after a parameter had left its default
C2_Witness ==
    /\ last.op = "setParameter" /\ last.a = NUM_PARAMETERS
    /\ params # ParamDefault

\* C12: in both plugins, right after init every parameter holds its
\* documented default (instrument 0, 0.01, 0.1, 0.7, 0.3, 5000, 0.3, 0;
\* effect 1, 0.5, 1000, 0.5), whatever setParameter calls came before init.
C12_DefaultsAfterInit ==
    /\ last.op = "init" => params = ParamDefault
    /\ last.op = "fx_init" => fx_params = FxParamDefault

\* ------------------------------------------------------------------------
\* SpecPool: filling and overfilling the voice pool
\* ------------------------------------------------------------------------

MaxPoolCalls == 21

ActiveCount(vs) == Cardinality({i \in VoiceIds : vs[i].active})

\* the blocks the host processes while it fills the pool
MaxPoolBlocks == 3

\* the host calls init once, before anything else; every call after it is a
\* noteOn or a process, so ncalls - 1 - noteOns blocks have been processed
NextPool ==
    /\ ncalls < MaxPoolCalls
    /\ \/ ncalls = 0 /\ init(55, 128)
       \/ ncalls > 0 /\ noteOn(33, 100, 0)
       \/ ncalls > 0 /\ ncalls - 1 - noteOns < MaxPoolBlocks /\ process(4)
    /\ Counted

SpecPool == Init /\ [][NextPool]_vars

Min(a, b) == IF a < b THEN a ELSE b

\* v is a voice as noteOn(note, velocity, channel) leaves it: active, the
\* note, velocity / 127, phase 0, envelope 0, stage Attack, filter state 0
FreshVoice(v, note, velocity) ==
    /\ v.active /\ v.note = note
    /\ v.velocity = (velocity * MILLI) \div 127
    /\ v.phase = 0 /\ v.envelope = 0 /\ v.envStage = 1
    /\ v.filterState = <<0, 0>>

\* C5: after init, k noteOn calls with velocity > 0 and any number of process
\* calls, with no noteOff, reset or controlChange(123), leave exactly
\* min(k, 16) voices active; a noteOn beyond the 16th replaces a voice.
C5_ActiveCount ==
    clean =>
        /\ ActiveCount(voices) = Min(noteOns, MAX_VOICES)
        /\ (last.op = "noteOn" /\ noteOns > MAX_VOICES) =>
              /\ last.stole
              /\ FreshVoice(voices[last.ret], last.a, last.b)

\* the 17th noteOn has been made
C5_Witness ==
    /\ clean /\ noteOns = MAX_VOICES + 1 /\ last.op = "noteOn"
    /\ ActiveCount(voices) = MAX_VOICES

\* the lowest index among the voices of lowest envelope level
Quietest(vs) ==
    CHOOSE k \in VoiceIds :
        /\ \A j \in VoiceIds : vs[k].envelope <= vs[j].envelope
        /\ \A j \in VoiceIds : vs[j].envelope = vs[k].envelope => k <= j

MaxHeld == 2
VoiceNotes == {21, 33}

\* the host calls init once, before anything else, and then shortens the
\* release time to 20 ms
Started == last.op \notin {"none", "init"}

NextVoices ==
    /\ \/ last.op = "none" /\ init(55, 128)
       \/ last.op = "init" /\ setParameter(4, 20)
       \/ /\ Started
          /\ ActiveCount(voices) < MaxHeld
          /\ \E n \in VoiceNotes : noteOn(n, 100, 0)
       \/ Started /\ \E n \in VoiceNotes : noteOn(n, 0, 0)
       \/ Started /\ \E n \in VoiceNotes : noteOff(n, 0)
       \/ Started /\ process(4)
       \/ Started /\ reset
       \/ Started /\ controlChange(123, 0, 0)
       \/ Started /\ controlChange(1, 127, 0)
    /\ Uncounted

SpecVoices == Init /\ [][NextVoices]_vars

\* C4: in every reachable state each of the 16 voices is inactive exactly
\* when its envelope stage is Idle (0).
C4_ActiveIffNotIdle ==
    \A i \in VoiceIds : (~voices[i].active) <=> (voices[i].envStage = 0)

\* a voice went through its release and is idle again
C4_Witness ==
    /\ last.op = "process"
    /\ \E i \in VoiceIds :
          ~voices[i].active /\ voices[i].envStage = 0 /\ voices[i].note = 33

\* parameters and global performance state of the instrument
Globals == <<sampleRate, bufferSize, params, masterVolume, pitchBendValue, modWheel>>

\* C7: noteOn(note, 0, channel) is treated as note-off: it produces exactly
\* the state noteOff(note, channel) produces from the same state, and it
\* neither activates nor re-initialises a voice.
C7_VelocityZeroIsNoteOff ==
    [][(last'.op = "noteOn" /\ last'.b = 0)
       => /\ voices' = noteOffVoices(voices, last'.a)
          /\ Globals' = Globals
          /\ \A i \in VoiceIds :
                /\ voices'[i].active = voices[i].active
                /\ voices'[i].envStage = 1 => voices[i].envStage = 1]_vars

\* noteOn with velocity 0 released a sounding voice
C7_Witness ==
    /\ last.op = "noteOn" /\ last.b = 0
    /\ \E i \in VoiceIds :
          /\ voices[i].active /\ voices[i].note = last.a
          /\ voices[i].envStage = 4 /\ voices[i].envelope > 0

\* C8: noteOff(note, channel) moves every active voice of that note in
\* Attack, Decay or Sustain to Release, several voices of the same note
\* included, and changes nothing else: not the other voices, not a voice
\* already in Release, no envelope level, no parameter, no global state.
C8_NoteOffFrame ==
    [][(last'.op = "noteOff")
       => /\ \A i \in VoiceIds :
                IF /\ voices[i].active /\ voices[i].note = last'.a
                   /\ voices[i].envStage \in {1, 2, 3}
                THEN voices'[i] = [voices[i] EXCEPT !.envStage = 4]
                ELSE voices'[i] = voices[i]
          /\ \A i \in VoiceIds : voices'[i].envelope = voices[i].envelope
          /\ Globals' = Globals]_vars

\* noteOff found two voices of its note, one in Attack and one past it, and
\* both are in Release
C8_Witness ==
    /\ last.op = "noteOff"
    /\ \E i, j \in VoiceIds :
          /\ i # j
          /\ voices[i].note = last.a /\ voices[j].note = last.a
          /\ voices[i].envStage = 4 /\ voices[j].envStage = 4
          /\ voices[i].envelope = 0 /\ voices[j].envelope = 700 * LEVEL

\* ------------------------------------------------------------------------
\* SpecMidi: every exported function of the instrument, with arguments
\* inside and outside the ranges the host is meant to keep
\* ------------------------------------------------------------------------

MaxMidiCalls == 2

NextMidi ==
    /\ ncalls < MaxMidiCalls
    /\ \/ init(44100, 128)
       \/ \E n \in {-1, 60, 200} : \E v \in {-1, 0, 127, 200} : noteOn(n, v, 0)
       \/ noteOff(60, 0)
       \/ \E cc \in {1, 7, 64, 71, 74, 123} : \E x \in {-1, 0, 127, 200} :
             controlChange(cc, x, 0)
       \/ \E x \in {-1, 0, 8192, 16383, 20000} : pitchBend(x, 0)
       \/ process(1)
       \/ reset
       \/ \E i \in IndexInputs : \E x \in ValueInputs(i) : setParameter(i, x)
    /\ Counted

SpecMidi == Init /\ [][NextMidi]_vars

\* C3: in the instrument, after any sequence of init, setParameter, noteOn,
\* noteOff, controlChange, pitchBend, process and reset calls with arbitrary
\* arguments, every stored parameter is within its declared range.
C3_ParamsInRange ==
    \A i \in ParamIds : ParamMin[i + 1] <= params[i] /\ params[i] <= ParamMax[i + 1]

\* C10: for any integer arguments, noteOn, controlChange and pitchBend leave
\* voice velocity in [0,1], voice note in 0..127, master volume and mod wheel
\* in [0,1] and the pitch-bend offset in [-1,1].
C10_MidiStateInRange ==
    /\ \A i \in VoiceIds :
          /\ 0 <= voices[i].velocity /\ voices[i].velocity <= MILLI
          /\ 0 <= voices[i].note /\ voices[i].note <= 127
    /\ 0 <= masterVolume /\ masterVolume <= MILLI
    /\ 0 <= modWheel /\ modWheel <= MILLI
    /\ -MILLI <= pitchBendValue /\ pitchBendValue <= MILLI

\* ------------------------------------------------------------------------
\* SpecRelease: init(44100, 128), noteOn(69, 127, 0), blocks of 128 samples
\* until the voice is held at its sustain level, noteOff(69, 0) there or
\* right after the noteOn, blocks of 128 samples
\* ------------------------------------------------------------------------

\* samples the host goes on processing after the noteOff
MaxReleaseSamples == 100000

NextRelease ==
    /\ \/ last.op = "none" /\ init(44100, 128)
       \/ last.op = "init" /\ noteOn(69, 127, 0)
       \/ /\ last.op \notin {"none", "init"}
          /\ relSamples.note < 0
          /\ \A i \in VoiceIds : voices[i].envStage # 3
          /\ process(128)
       \/ /\ relSamples.note >= 0
          /\ relSamples.samples < MaxReleaseSamples
          /\ process(128)
       \/ /\ relSamples.note < 0
          /\ last.op = "noteOn" \/ \E i \in VoiceIds : voices[i].envStage = 3
          /\ noteOff(69, 0)
    /\ Timed

SpecRelease == Init /\ [][NextRelease]_vars

\* release * sampleRate, in samples
ReleaseSamples == (params[4] * sampleRate) \div MILLI

\* C9 as stated: once release * sampleRate samples have been processed after
\* noteOff(69, 0), the voice is inactive with envelope 0.
C9_SilentWithinReleaseTime ==
    (relSamples.note = 69 /\ relSamples.samples >= ReleaseSamples)
        => \A i \in VoiceIds :
              voices[i].note = 69 => (~voices[i].active /\ voices[i].envelope = 0)

\* C9, amended: a voice still active after noteOff(69, 0) has seen fewer than
\* 7 * release * sampleRate samples since; it ends inactive with envelope 0.
C9_SilentWithinSevenReleaseTimes ==
    \A i \in VoiceIds :
        /\ (relSamples.note = 69 /\ voices[i].note = 69 /\ voices[i].active)
              => relSamples.samples < 7 * ReleaseSamples
        /\ (relSamples.note = 69 /\ relSamples.samples >= 7 * ReleaseSamples)
              => (~voices[i].active /\ voices[i].envelope = 0)

\* the voice was released from its sustain level and fell silent only after
\* more than release * sampleRate samples
C9_Witness ==
    /\ relSamples.note = 69
    /\ relSamples.samples > 6 * ReleaseSamples
    /\ relSamples.samples < 7 * ReleaseSamples
    /\ last.op = "process"
    /\ ~voices[0].active /\ voices[0].envelope = 0 /\ voices[0].note = 69

\* ------------------------------------------------------------------------
\* SpecEffect: the effect from load to dispose.  The host sets parameters
\* at any time, calls init once, and only then processes, resets and
\* disposes; malloc may fail.
\* ------------------------------------------------------------------------

MaxFxCalls == 4

\* two samples of one channel: a constant 1.0, and -0.5 followed by 0.25
FxSignals == {<<MICRO, MICRO>>, <<-(MICRO \div 2), MICRO \div 4>>}

\* the input buffers the host passes for numChannels channels
FxInputs(numChannels) == [1 .. numChannels -> FxSignals]

\* init has been called
FxInited == delayLength > 0

NextEffect ==
    /\ ncalls < MaxFxCalls
    /\ \/ \E x \in {0, 2 * MILLI} : fx_setParameter(0, x)
       \/ fx_setParameter(1, MILLI)
       \/ ~FxInited /\ \E allocated \in BOOLEAN : fx_init(44100, 128, allocated)
       \/ FxInited /\ \E in \in FxInputs(FX_NUM_CHANNELS) : fx_process(in, 2)
       \/ /\ FxInited
          /\ \E n \in 1 .. FX_NUM_CHANNELS + 1 : \E in \in FxInputs(n) :
                fx_processBlock(in, 2, n)
       \/ FxInited /\ fx_reset
       \/ FxInited /\ fx_dispose
    /\ Counted

SpecEffect == Init /\ [][NextEffect]_vars

\* malloc returned NULL in init: init ran and nothing was ever allocated
AllocFailed == FxInited /\ heap.blocks = <<>>

\* no sample of the output buffer was written
Untouched(out) == \A ch \in DOMAIN out : \A i \in DOMAIN out[ch] : out[ch][i] = Stale

\* C11: in the effect, once malloc has failed in init, every later process
\* or processBlock call is a no-op (output untouched) or a passthrough
\* (output equal to input), whatever gain, mix and cutoff are.
C11_InertAfterFailedAlloc ==
    (AllocFailed /\ last.op \in {"fx_process", "fx_processBlock"})
        => (Untouched(fx_output) \/ fx_output = last.a)

\* ------------------------------------------------------------------------
\* SpecSound: sounding voices, sample by sample.  The host calls init with
\* a sample rate of 1000 Hz and sets attack, decay and release to 1 ms (one
\* sample each) and the cutoff to 100 Hz; then it plays.
\* ------------------------------------------------------------------------

\* the setParameter calls that follow init: <<index, value>>
SoundSetup == <<<<1, 1>>, <<2, 1>>, <<4, 1>>, <<5, 100 * MILLI>>>>

\* calls of the host after the setup
MaxSoundCalls == 6

SoundNotes == {60, 69}

NextSound ==
    /\ \/ ncalls = 0 /\ init(1000, 128)
       \/ /\ ncalls \in 1 .. Len(SoundSetup)
          /\ setParameter(SoundSetup[ncalls][1], SoundSetup[ncalls][2])
       \/ /\ ncalls > Len(SoundSetup)
          /\ ncalls < 1 + Len(SoundSetup) + MaxSoundCalls
          /\ \/ /\ ActiveCount(voices) < MaxHeld
                /\ \E n \in SoundNotes : noteOn(n, 100, 0)
             \/ \E n \in SoundNotes : noteOff(n, 0)
             \/ \E n \in {1, 2} : process(n)
             \/ \E x \in {0, 64, 127} : controlChange(123, x, 0)
             \/ pitchBendValue = 0 /\ pitchBend(16383, 0)
             \/ modWheel = 0 /\ controlChange(1, 127, 0)
    /\ Counted

SpecSound == Init /\ [][NextSound]_vars

\* C13: controlChange(123, value, channel) performs a full reset for any
\* value: every voice is inactive, in stage Idle, with envelope 0 and filter
\* state 0; pitch bend and mod wheel are 0; the eight parameters are as
\* they were.
C13_AllNotesOffResets ==
    [][(last'.op = "controlChange" /\ last'.a = 123)
       => /\ \A i \in VoiceIds :
                /\ ~voices'[i].active
                /\ voices'[i].envStage = 0
                /\ voices'[i].envelope = 0
                /\ voices'[i].filterState = <<0, 0>>
          /\ pitchBendValue' = 0
          /\ modWheel' = 0
          /\ params' = params]_vars

\* controlChange(123, 64, 0) reset a voice that had sounded for more than
\* one sample and had been heard in the last sample written
C13_Witness ==
    /\ last.op = "controlChange" /\ last.a = 123 /\ last.b = 64
    /\ voices[0].note = 69 /\ ~voices[0].active
    /\ voices[0].phase # 0 /\ voices[0].phase # voices[0].phaseIncrement
    /\ output # <<>> /\ output[Len(output)] # 0

\* C15: while at least one voice is inactive, noteOn with velocity > 0 never
\* steals: it initialises the lowest-index inactive voice (active, the note,
\* velocity / 127, phase 0, envelope 0, stage Attack, filter state 0) and
\* leaves every other voice, the parameters and the global state unchanged.
C15_TakesFirstFreeVoice ==
    [][(/\ last'.op = "noteOn" /\ last'.b > 0
        /\ \E i \in VoiceIds : ~voices[i].active)
       => \E k \in VoiceIds :
             /\ ~voices[k].active
             /\ \A j \in VoiceIds : j < k => voices[j].active
             /\ last'.ret = k /\ ~last'.stole
             /\ FreshVoice(voices'[k], last'.a, last'.b)
             /\ \A j \in VoiceIds \ {k} : voices'[j] = voices[j]
             /\ Globals' = Globals]_vars

\* noteOn took voice 0 again, after a release had ended there, while voice
\* 1 went on sounding in Sustain
C15_Witness ==
    /\ last.op = "noteOn" /\ last.b > 0 /\ last.ret = 0 /\ ~last.stole
    /\ ncalls > Len(SoundSetup) + 2
    /\ voices[1].active /\ voices[1].envStage = 3
    /\ voices[1].filterState # <<0, 0>>

\* what an active voice v adds to the next sample when its filtered
\* oscillator sample is scaled by the envelope level it has now
VoicedNow(v) ==
    mulMicro(
        mulMicro(
            processFilter(
                pitchVoice(v, params, sampleRate, pitchBendValue),
                generateOscillator(
                    pitchVoice(v, params, sampleRate, pitchBendValue),
                    params[0] \div MILLI, noiseState).sample,
                params, sampleRate).out,
            v.envelope \div MILLI),
        v.velocity * MILLI)

\* the sum of VoicedNow over the active voices from voice i on
RECURSIVE SumVoicedNow(_, _)
SumVoicedNow(vs, i) ==
    IF i >= MAX_VOICES THEN 0
    ELSE (IF vs[i].active THEN VoicedNow(vs[i]) ELSE 0) + SumVoicedNow(vs, i + 1)

\* C19: within each processed sample a voice contributes with the envelope
\* level it had before that sample's envelope update: the sample written is
\* the soft-clipped, volume-scaled sum of the contributions at the levels
\* of the state before the call, so the first sample after noteOn gets
\* nothing from the new voice, and a voice whose release ends in a sample
\* still contributes to it with its last non-zero level.  (Stated for the
\* waveforms that do not draw from the noise generator.)
C19_ContributesBeforeEnvelopeUpdate ==
    [][(last'.op = "process" /\ last'.a = 1 /\ params[0] < 4 * MILLI)
       => /\ output' = <<tanhf(mulMicro(SumVoicedNow(voices, 0),
                                        masterVolume * MILLI))>>
          /\ (\A i \in VoiceIds : voices[i].active => voices[i].envelope = 0)
                => output' = <<0>>]_vars

\* the only sounding voice ended its release in the sample just processed,
\* and that sample is not silent
C19_Witness ==
    /\ last.op = "process" /\ last.a = 1
    /\ \A i \in VoiceIds : ~voices[i].active
    /\ voices[0].note = 69 /\ voices[0].phase # 0
    /\ output # <<0>>

\* C14: processBlock of the effect writes a filtered, mixed and gained
\* output for every sample index below numSamples of every channel below
\* numChannels, for any numChannels, not only for the first two channels.
C14_EveryChannelWritten ==
    (last.op = "fx_processBlock")
        => /\ Len(fx_output) = last.ret
           /\ \A ch \in 1 .. last.ret :
                 /\ Len(fx_output[ch]) = last.b
                 /\ \A i \in 1 .. last.b : fx_output[ch][i] # Stale

\* C20: over one init followed by reset, process, processBlock and dispose
\* calls of the effect in any order, the delay buffer is never written or
\* freed after it was released: dispose clears the handle, a second dispose
\* frees nothing, a reset after dispose writes nothing, and reset never
\* allocates.
C20_NoUseAfterDispose ==
    /\ [](~heap.fault)
    /\ [][/\ last'.op = "fx_dispose"
                => /\ delayBuffer' = 0
                   /\ last'.ret = delayBuffer
                   /\ delayBuffer = 0 => heap' = heap
          /\ last'.op = "fx_reset"
                => /\ heap'.blocks = heap.blocks
                   /\ delayBuffer' = delayBuffer
                   /\ delayBuffer = 0 => last'.ret = 0
          /\ last'.op \in {"fx_process", "fx_processBlock"}
                => heap' = heap /\ delayBuffer' = delayBuffer]_vars

\* dispose was called again after the buffer had been freed, and freed
\* nothing
C20_Witness ==
    /\ last.op = "fx_dispose" /\ last.ret = 0
    /\ heap.blocks = <<"freed">> /\ ~heap.fault
    /\ delayBuffer = 0

\* ------------------------------------------------------------------------
\* SpecStages: the envelope stages of a full pool, sample by sample.  The
\* host calls init with a sample rate of 880 Hz, sets attack and decay to
\* 2 ms (two samples each) and release to 1 ms (one sample) and starts note
\* 81 on all 16 voices; then it plays note 69 over them.  At 880 Hz the sine of both notes is
\* sampled at its zeros, so the voices differ by their envelopes only.
\* ------------------------------------------------------------------------

\* the setParameter calls that follow init: <<index, value>>
StagesSetup == <<<<1, 2>>, <<2, 2>>, <<4, 1>>>>

\* calls of the host after the setup
MaxStagesCalls == 6

NextStages ==
    /\ \/ ncalls = 0 /\ init(880, 128)
       \/ /\ ncalls \in 1 .. Len(StagesSetup)
          /\ setParameter(StagesSetup[ncalls][1], StagesSetup[ncalls][2])
       \/ /\ ncalls > Len(StagesSetup)
          /\ ncalls <= Len(StagesSetup) + MAX_VOICES
          /\ noteOn(81, 100, 0)
       \/ /\ ncalls > Len(StagesSetup) + MAX_VOICES
          /\ ncalls < 1 + Len(StagesSetup) + MAX_VOICES + MaxStagesCalls
          /\ \/ noteOn(69, 100, 0)
             \/ noteOn(69, 0, 0)
             \/ \E n \in {69, 81} : noteOff(n, 0)
             \/ \E n \in {1, 2} : process(n)
             \/ reset
             \/ controlChange(123, 0, 0)
    /\ Counted

SpecStages == Init /\ [][NextStages]_vars

\* C16: processing one sample changes a voice's stage only from Attack to
\* Decay, from Decay to Sustain or from Release to Idle; a voice in Sustain
\* keeps its stage and its level over any number of processed samples, and
\* leaves Sustain only by a noteOff for its note (noteOn with velocity 0
\* calls it), by a noteOn that steals it, or by reset (controlChange 123
\* calls it).
C16_StageTransitions ==
    [][\A i \in VoiceIds :
          /\ (last'.op = "process" /\ last'.a = 1)
                => \/ voices'[i].envStage = voices[i].envStage
                   \/ <<voices[i].envStage, voices'[i].envStage>>
                         \in {<<1, 2>>, <<2, 3>>, <<4, 0>>}
          /\ (last'.op = "process" /\ voices[i].envStage = 3)
                => /\ voices'[i].envStage = 3
                   /\ voices'[i].envelope = voices[i].envelope
          /\ (voices[i].envStage = 3 /\ voices'[i].envStage # 3)
                => \/ /\ last'.op = "noteOff" \/ (last'.op = "noteOn" /\ last'.b = 0)
                      /\ last'.a = voices[i].note
                      /\ voices'[i].envStage = 4
                   \/ /\ last'.op = "noteOn" /\ last'.b > 0
                      /\ last'.stole /\ last'.ret = i
                      /\ voices'[i].envStage = 1
                   \/ /\ last'.op = "reset" \/ (last'.op = "controlChange" /\ last'.a = 123)
                      /\ voices'[i].envStage = 0]_vars

\* a noteOn stole voice 0 out of Sustain while the other voices stayed there
C16_Witness ==
    /\ last.op = "noteOn" /\ last.stole /\ last.ret = 0
    /\ voices[0].envStage = 1 /\ voices[0].note = 69
    /\ \A i \in VoiceIds \ {0} :
          voices[i].envStage = 3 /\ voices[i].envelope = 700 * LEVEL

\* ------------------------------------------------------------------------
\* SpecEnvelope: the envelope under parameter changes.  The host calls init
\* with a sample rate of 880 Hz and plays note 69, and between samples it
\* moves attack, decay, sustain and release to the ends of their ranges.
\* ------------------------------------------------------------------------

MaxEnvelopeCalls == 6

\* <<index, value>> of the setParameter calls: the shortest and the longest
\* attack, decay and release, no sustain and full sustain
EnvelopeSettings ==
    {<<1, 1>>, <<1, 2 * MILLI>>, <<2, 1>>, <<2, 2 * MILLI>>,
     <<3, 0>>, <<3, MILLI>>, <<4, 1>>, <<4, 5 * MILLI>>}

NextEnvelope ==
    /\ \/ ncalls = 0 /\ init(880, 128)
       \/ /\ ncalls > 0
          /\ ncalls < 1 + MaxEnvelopeCalls
          /\ \/ \E c \in EnvelopeSettings : setParameter(c[1], c[2])
             \/ ActiveCount(voices) < MaxHeld /\ noteOn(69, 100, 0)
             \/ noteOff(69, 0)
             \/ \E n \in {1, 3} : process(n)
             \/ reset
    /\ Counted

SpecEnvelope == Init /\ [][NextEnvelope]_vars

\* C18: with a positive sample rate, the envelope level of every voice is
\* within [0, 1] in every reachable state, also when attack, decay, sustain
\* and release are changed by setParameter between samples.
C18_EnvelopeInUnitRange ==
    \A i \in VoiceIds : 0 <= voices[i].envelope /\ voices[i].envelope <= ONE

\* sustain was raised to 1 while voice 0 was in Decay, and the voice
\* settled in Sustain at level 1
C18_Witness ==
    /\ last.op = "process"
    /\ params[3] = MILLI
    /\ voices[0].envStage = 3 /\ voices[0].envelope = ONE

\* ------------------------------------------------------------------------
\* SpecFade: a released note under a host that keeps calling process.  The
\* host calls init with a sample rate of 880 Hz, sets the release time,
\* plays note 81 and releases it at level 0 right after noteOn, part way up
\* the attack, at the peak 1.0 or in Sustain; there is no noteOn after that.
\* The audio callback runs for as long as the plugin lives, hence the weak
\* fairness of the process step.  The fairness condition reads the result
\* of that step from ahead, which every step of this specification sets to
\* what the next process call returns (AheadIsProcess).
\* ------------------------------------------------------------------------

\* the shortest and the longest release time and one in between, thousandths
FadeReleases == {1, 300, 5 * MILLI}

\* the host's block: 4 and then 5 samples through the attack, which ends on
\* the 9th sample, and 128 samples from then on
FadeBlock(v) ==
    IF v.envStage = 1 THEN (IF v.envelope = 0 THEN 4 ELSE 5) ELSE 128

\* ahead is what process would leave behind if the host called it now
Foreseen ==
    /\ ahead' = processSamples(
                    [voices |-> voices', noise |-> noiseState', sample |-> 0,
                     output |-> <<>>],
                    params', sampleRate', pitchBendValue', masterVolume',
                    FadeBlock(voices'[0]))
    /\ UNCHANGED <<ncalls, noteOns, clean, relSamples>>

FadeProcess ==
    /\ last.op \in {"noteOn", "noteOff", "process"}
    /\ process(FadeBlock(voices[0]))

NextFade ==
    /\ \/ last.op = "none" /\ init(880, 128)
       \/ last.op = "init" /\ \E r \in FadeReleases : setParameter(4, r)
       \/ last.op = "setParameter" /\ noteOn(81, 100, 0)
       \/ /\ last.op \in {"noteOn", "process"}
          /\ voices[0].envStage \in {1, 2, 3}
          /\ noteOff(81, 0)
       \/ FadeProcess
    /\ Foreseen

\* the process step, with its result read from ahead
FadeProcessAhead ==
    /\ last.op \in {"noteOn", "noteOff", "process"}
    /\ voices' = ahead.voices
    /\ noiseState' = ahead.noise
    /\ output' = ahead.output
    /\ last' = Call("process", FadeBlock(voices[0]), 0, 0, FALSE)
    /\ UNCHANGED <<sampleRate, bufferSize, params, masterVolume,
                   pitchBendValue, modWheel, fxVars, ncalls>>

SpecFade == Init /\ [][NextFade]_vars /\ WF_vars(FadeProcessAhead)

\* ahead is the result of the process call the host would make
AheadIsProcess ==
    last.op \in {"noteOn", "noteOff", "process"} =>
        ahead = processSamples(
                    [voices |-> voices, noise |-> noiseState, sample |-> 0,
                     output |-> <<>>],
                    params, sampleRate, pitchBendValue, masterVolume,
                    FadeBlock(voices[0]))

Releasing == \E i \in VoiceIds : voices[i].envStage = 4

AllIdle ==
    \A i \in VoiceIds :
        /\ ~voices[i].active
        /\ voices[i].envStage = 0
        /\ voices[i].envelope = 0

\* C17: with a positive sample rate, a voice in Release, with process called
\* repeatedly and no noteOn, eventually is inactive and Idle with envelope
\* 0, from every level in [0, 1] (level 0 in Attack included) and for
\* release times from 0.001 to 5.
C17_ReleaseEnds == Releasing ~> AllIdle

\* the longest release has brought voice 0 down to just above the 0.001
\* threshold
C17_Witness ==
    /\ last.op = "process"
    /\ params[4] = 5 * MILLI
    /\ voices[0].envStage = 4
    /\ voices[0].envelope < 2 * LEVEL

====
